---- MODULE Spec2Model ----
(***************************************************************************)
(* sqlite-opus: the DatabaseManager (connection holder, direct and         *)
(* paginated query execution) and the query request path of the routes.    *)
(* Query texts are strings; the text functions of the code (strip, upper,  *)
(* the regular expressions, f-string formatting) are computed character by *)
(* character.                                                              *)
(***************************************************************************)
EXTENDS Integers, Sequences, FiniteSets, TLC

(***************************************************************************)
(* Text primitives (Python str methods and the re module).                 *)
(***************************************************************************)

\* Python's slice s[i-1:j] for 1-based inclusive positions i..j: positions
\* outside the text are dropped.
Slice(s, i, j) ==
    LET lo == IF i < 1 THEN 1 ELSE i
        hi == IF j > Len(s) THEN Len(s) ELSE j
    IN  IF lo > hi THEN "" ELSE SubSeq(s, lo, hi)

\* The i-th character of s, as a one-character string ("" outside the text).
CharAt(s, i) == IF i < 1 \/ i > Len(s) THEN "" ELSE SubSeq(s, i, i)

\* s[i-1:] for a 1-based i.
Drop(s, i) == Slice(s, i, Len(s))

SpaceChars == {" ", "\t", "\n", "\r"}

DigitChars == {"0", "1", "2", "3", "4", "5", "6", "7", "8", "9"}

\* Python's str.isspace for one character (re's \s).
IsSpace(c) == c \in SpaceChars

\* re's \d for one character.
IsDigit(c) == c \in DigitChars

Letters == <<"a", "b", "c", "d", "e", "f", "g", "h", "i", "j", "k", "l", "m",
             "n", "o", "p", "q", "r", "s", "t", "u", "v", "w", "x", "y", "z">>

Capitals == <<"A", "B", "C", "D", "E", "F", "G", "H", "I", "J", "K", "L", "M",
              "N", "O", "P", "Q", "R", "S", "T", "U", "V", "W", "X", "Y", "Z">>

LowerSet == {Letters[k] : k \in 1..26}

UpperSet == {Capitals[k] : k \in 1..26}

\* The capital of each lower-case letter.
UpperMap == [c \in LowerSet |-> Capitals[CHOOSE k \in 1..26 : Letters[k] = c]]

IsLower(c) == c \in LowerSet

IsUpper(c) == c \in UpperSet

WordChars == LowerSet \cup UpperSet \cup DigitChars \cup {"_"}

\* re's \w for one character.
IsWordChar(c) == c \in WordChars

\* str.upper for one character.
UpperChar(c) == IF c \in LowerSet THEN UpperMap[c] ELSE c

\* The upper-cased text of s from position i on.
RECURSIVE UpperFrom(_, _)
UpperFrom(s, i) ==
    IF i > Len(s) THEN "" ELSE UpperChar(SubSeq(s, i, i)) \o UpperFrom(s, i + 1)

\* str.upper.
Upper(s) == UpperFrom(s, 1)

\* The last position <= j of s that holds no character of the set (0 if none).
RECURSIVE LastOutside(_, _, _)
LastOutside(s, j, set) ==
    IF j >= 1 /\ SubSeq(s, j, j) \in set THEN LastOutside(s, j - 1, set) ELSE j

\* The first position >= i of s that holds no character of the set (Len(s)+1 if none).
RECURSIVE FirstOutside(_, _, _)
FirstOutside(s, i, set) ==
    IF i <= Len(s) /\ SubSeq(s, i, i) \in set THEN FirstOutside(s, i + 1, set) ELSE i

\* str.lstrip() (whitespace).
LStrip(s) == Slice(s, FirstOutside(s, 1, SpaceChars), Len(s))

\* str.rstrip() (whitespace).
RStrip(s) == Slice(s, 1, LastOutside(s, Len(s), SpaceChars))

\* str.strip().
Strip(s) == LStrip(RStrip(s))

\* str.rstrip(";"): every trailing semicolon is removed.
RStripSemicolon(s) == Slice(s, 1, LastOutside(s, Len(s), {";"}))

\* str.startswith.
StartsWith(s, p) == Len(s) >= Len(p) /\ Slice(s, 1, Len(p)) = p

\* str.endswith.
EndsWith(s, p) == Len(s) >= Len(p) /\ Slice(s, Len(s) - Len(p) + 1, Len(s)) = p

\* p occurs in s at position i.
OccursAt(s, p, i) ==
    i >= 1 /\ i + Len(p) - 1 <= Len(s) /\ (p = "" \/ SubSeq(s, i, i + Len(p) - 1) = p)

\* Python's "p in s".
Contains(s, p) == \E i \in 1..(Len(s) + 1) : OccursAt(s, p, i)

\* The first position >= i of s that holds no whitespace (Len(s)+1 at the end).
SkipSpace(s, i) == FirstOutside(s, IF i < 1 THEN 1 ELSE i, SpaceChars)

\* The first position >= i of s that holds no digit (Len(s)+1 at the end).
SkipDigits(s, i) == FirstOutside(s, IF i < 1 THEN 1 ELSE i, DigitChars)

\* re's \b at the gap before position i of s (1 <= i <= Len(s)+1).
WordBoundary(s, i) ==
    LET before == i >= 2 /\ IsWordChar(CharAt(s, i - 1))
        after  == i <= Len(s) /\ IsWordChar(CharAt(s, i))
    IN  before # after

DigitValue(c) == CHOOSE d \in 0..9 : <<"0", "1", "2", "3", "4", "5", "6", "7", "8", "9">>[d + 1] = c

\* The f-string rendering of an integer.
RECURSIVE ToStr(_)
ToStr(n) ==
    IF n < 0 THEN "-" \o ToStr(-n)
    ELSE IF n < 10 THEN <<"0", "1", "2", "3", "4", "5", "6", "7", "8", "9">>[n + 1]
    ELSE ToStr(n \div 10) \o ToStr(n % 10)

(***************************************************************************)
(* database.py: _strip_limit_offset                                        *)
(***************************************************************************)

\* re.search(r"\s+(?:OFFSET\s+\d+|LIMIT\s+\d+)\s*$", q, re.IGNORECASE) can match
\* starting at position i (1-based) of q.
ClauseMatchAt(q, i) ==
    LET a == SkipSpace(q, i)
        b == IF Upper(Slice(q, a, a + 5)) = "OFFSET" THEN a + 6
             ELSE IF Upper(Slice(q, a, a + 4)) = "LIMIT" THEN a + 5
             ELSE 0
        c == SkipSpace(q, b)
        d == SkipDigits(q, c)
    IN  /\ IsSpace(CharAt(q, i))
        /\ a > i
        /\ b > 0
        /\ c > b
        /\ d > c
        /\ SkipSpace(q, d) = Len(q) + 1

\* m.start() of the match the search finds, 1-based: the leftmost position >= i
\* the pattern matches at, 0 when there is none.
RECURSIVE ClauseMatchStart(_, _)
ClauseMatchStart(q, i) ==
    IF i > Len(q) THEN 0
    ELSE IF ClauseMatchAt(q, i) THEN i
    ELSE ClauseMatchStart(q, i + 1)

\* The for loop of _strip_limit_offset with n rounds left.
RECURSIVE StripLoop(_, _)
StripLoop(q, n) ==
    IF n = 0 THEN q
    ELSE LET m == ClauseMatchStart(q, 1)
         IN  IF m > 0 THEN StripLoop(RStrip(Slice(q, 1, m - 1)), n - 1) ELSE q

\* _strip_limit_offset with a single pass of the loop body: only the last clause
\* is removed.
StripLastClause(query) == StripLoop(Strip(RStripSemicolon(Strip(query))), 1)

\* _strip_limit_offset(query).
StripLimitOffset(query) == StripLoop(Strip(RStripSemicolon(Strip(query))), 2)

(***************************************************************************)
(* routes.py: contains_dml                                                 *)
(***************************************************************************)

\* re.search(r"\bK1\s+K2\b", s) for keywords K1, K2.
MatchKeywordPair(s, k1, k2) ==
    \E i \in 1..Len(s) :
        /\ OccursAt(s, k1, i)
        /\ WordBoundary(s, i)
        /\ LET a == SkipSpace(s, i + Len(k1))
           IN  /\ a > i + Len(k1)
               /\ OccursAt(s, k2, a)
               /\ WordBoundary(s, a + Len(k2))

\* re.search(r"\bK\s+", s).
MatchKeywordSpace(s, k) ==
    \E i \in 1..Len(s) :
        /\ OccursAt(s, k, i)
        /\ WordBoundary(s, i)
        /\ SkipSpace(s, i + Len(k)) > i + Len(k)

\* re.search(r"\bK\s+\w", s).
MatchKeywordWord(s, k) ==
    \E i \in 1..Len(s) :
        /\ OccursAt(s, k, i)
        /\ WordBoundary(s, i)
        /\ LET a == SkipSpace(s, i + Len(k))
           IN  /\ a > i + Len(k)
               /\ a <= Len(s)
               /\ IsWordChar(CharAt(s, a))

\* contains_dml(query).
contains_dml(query) ==
    LET query_upper == Upper(Strip(query))
    IN  \/ MatchKeywordPair(query_upper, "INSERT", "INTO")
        \/ MatchKeywordWord(query_upper, "UPDATE")
        \/ MatchKeywordPair(query_upper, "DELETE", "FROM")
        \/ MatchKeywordSpace(query_upper, "CREATE")
        \/ MatchKeywordSpace(query_upper, "TRUNCATE")
        \/ MatchKeywordPair(query_upper, "REPLACE", "INTO")
        \/ MatchKeywordSpace(query_upper, "DROP")
        \/ MatchKeywordSpace(query_upper, "ALTER")

\* query.strip().upper().startswith("SELECT")
IsSelect(query) == StartsWith(Upper(Strip(query)), "SELECT")

(***************************************************************************)
(* The SQLite engine behind cursor.execute, for the statements the model   *)
(* sends: SELECT * FROM t [LIMIT n [OFFSET m]], the COUNT wrapper of such  *)
(* a select, INSERT [OR IGNORE] INTO t DEFAULT VALUES and                  *)
(* DELETE FROM t. The table t(id INTEGER PRIMARY KEY) is the sequence of   *)
(* its ids in rowid order. Any other text is a syntax error.               *)
(***************************************************************************)

\* The whitespace-separated words of s.
RECURSIVE Words(_)
Words(s) ==
    LET a == SkipSpace(s, 1)
    IN  IF a > Len(s) THEN <<>>
        ELSE LET e == CHOOSE k \in a..Len(s) :
                          /\ \A j \in a..k : ~IsSpace(CharAt(s, j))
                          /\ (k = Len(s) \/ IsSpace(CharAt(s, k + 1)))
             IN  <<Slice(s, a, e)>> \o Words(Drop(s, e + 1))

\* w is an integer literal, with an optional sign.
IsIntLiteral(w) ==
    LET d == IF StartsWith(w, "-") THEN Drop(w, 2) ELSE w
    IN  d # "" /\ SkipDigits(d, 1) = Len(d) + 1

RECURSIVE DigitsValue(_)
DigitsValue(d) ==
    IF d = "" THEN 0
    ELSE 10 * DigitsValue(Slice(d, 1, Len(d) - 1)) + DigitValue(CharAt(d, Len(d)))

\* The value of an integer literal.
IntValue(w) == IF StartsWith(w, "-") THEN 0 - DigitsValue(Drop(w, 2)) ELSE DigitsValue(w)

\* Rows [offset, offset+limit) of rows; a negative limit is no limit, a negative
\* offset is 0 (SQLite's LIMIT/OFFSET).
Window(rows, limit, offset) ==
    LET o  == IF offset < 0 THEN 0 ELSE offset
        hi == IF limit < 0 \/ o + limit > Len(rows) THEN Len(rows) ELSE o + limit
    IN  IF o >= hi THEN <<>> ELSE SubSeq(rows, o + 1, hi)

SelectHead == <<"SELECT", "*", "FROM", "T">>

\* The words of a select without the alias (AS name) its table may carry. A name
\* is made of word characters, has no leading digit and is none of the words the
\* engine reserves.
WithoutAlias(w) ==
    LET name == IF Len(w) >= 6 THEN w[6] ELSE ""
    IN  IF /\ Len(w) >= 6
           /\ w[5] = "AS"
           /\ name # ""
           /\ FirstOutside(name, 1, WordChars) = Len(name) + 1
           /\ ~IsDigit(CharAt(name, 1))
           /\ name \notin {"SELECT", "FROM", "AS", "LIMIT", "WHERE", "ORDER", "GROUP"}
        THEN SubSeq(w, 1, 4) \o SubSeq(w, 7, Len(w))
        ELSE w

\* A select without terminator: [ok, rows]. LIMIT n, LIMIT n OFFSET m and
\* LIMIT m, n are the forms of the clause.
EngineSelect(text, rows) ==
    LET w == WithoutAlias(Words(Upper(text)))
        n == Len(w)
    IN  IF n < 4 \/ SubSeq(w, 1, 4) # SelectHead \/ Contains(text, ";")
        THEN [ok |-> FALSE, rows |-> <<>>]
        ELSE IF n = 4 THEN [ok |-> TRUE, rows |-> rows]
        ELSE IF n = 6 /\ w[5] = "LIMIT" /\ IsIntLiteral(w[6])
             THEN [ok |-> TRUE, rows |-> Window(rows, IntValue(w[6]), 0)]
        ELSE IF n = 8 /\ w[5] = "LIMIT" /\ IsIntLiteral(w[6])
                      /\ w[7] = "OFFSET" /\ IsIntLiteral(w[8])
             THEN [ok |-> TRUE, rows |-> Window(rows, IntValue(w[6]), IntValue(w[8]))]
        ELSE IF n = 7 /\ w[5] = "LIMIT" /\ EndsWith(w[6], ",")
                      /\ IsIntLiteral(Slice(w[6], 1, Len(w[6]) - 1)) /\ IsIntLiteral(w[7])
             THEN [ok |-> TRUE,
                   rows |-> Window(rows, IntValue(w[7]),
                                   IntValue(Slice(w[6], 1, Len(w[6]) - 1)))]
        ELSE [ok |-> FALSE, rows |-> <<>>]

CountPrefix == "SELECT COUNT(*) FROM ("

CountSuffix == ") AS _CNT"

\* The id SQLite gives the next inserted row.
NextRowId(rows) == IF rows = <<>> THEN 1 ELSE rows[Len(rows)] + 1

\* The most rows the table holds: an INSERT into a full table fails (the
\* engine's "database or disk is full").
MaxRows == 3

\* cursor.execute(statement) on a table holding rows:
\* [ok, rows (fetchall), table (afterwards), rowcount (cursor.rowcount)].
\* cursor.rowcount is -1 for a SELECT.
EngineExecute(statement, rows) ==
    LET s0   == Strip(statement)
        s    == IF EndsWith(s0, ";") THEN RStrip(Slice(s0, 1, Len(s0) - 1)) ELSE s0
        u    == Upper(s)
        w    == Words(u)
        fail == [ok |-> FALSE, rows |-> <<>>, table |-> rows, rowcount |-> -1,
                 error |-> "syntax error"]
        full == [ok |-> FALSE, rows |-> <<>>, table |-> rows, rowcount |-> -1,
                 error |-> "database or disk is full"]
    IN  IF StartsWith(u, CountPrefix) /\ EndsWith(u, CountSuffix)
             /\ Len(u) >= Len(CountPrefix) + Len(CountSuffix)
        THEN LET inner == EngineSelect(
                              Slice(s, Len(CountPrefix) + 1, Len(s) - Len(CountSuffix)), rows)
             IN  IF inner.ok
                 THEN [ok |-> TRUE, rows |-> <<Len(inner.rows)>>, table |-> rows,
                       rowcount |-> -1]
                 ELSE fail
        ELSE IF w = <<>>
        THEN [ok |-> TRUE, rows |-> <<>>, table |-> rows, rowcount |-> -1]
        ELSE IF w = <<"INSERT", "INTO", "T", "DEFAULT", "VALUES">>
                \/ w = <<"INSERT", "OR", "IGNORE", "INTO", "T", "DEFAULT", "VALUES">>
        THEN IF Len(rows) < MaxRows
             THEN [ok |-> TRUE, rows |-> <<>>, table |-> Append(rows, NextRowId(rows)),
                   rowcount |-> 1]
             ELSE full
        ELSE IF w = <<"DELETE", "FROM", "T">>
        THEN [ok |-> TRUE, rows |-> <<>>, table |-> <<>>, rowcount |-> Len(rows)]
        ELSE LET sel == EngineSelect(s, rows)
             IN  IF sel.ok
                 THEN [ok |-> TRUE, rows |-> sel.rows, table |-> rows, rowcount |-> -1]
                 ELSE fail

(***************************************************************************)
(* State.                                                                  *)
(***************************************************************************)

Threads == {"t1", "t2"}

NoThread == "none"

\* Files that exist and open as databases, each holding the table t.
DatabaseFiles == {"a.db"}

\* A path that exists but that sqlite3.connect cannot open (a directory).
UnopenablePath == "dir"

\* A path with no file.
MissingPath == "missing"

Paths == DatabaseFiles \cup {UnopenablePath, MissingPath}

NoPath == "None"

\* Identities of the sqlite3.Connection objects alive at one time.
MaxHandles == 3

Handles == 1..MaxHandles

NoHandle == 0

VARIABLES
    connection,        \* DatabaseManager.connection: a handle or NoHandle
    current_db_path,   \* DatabaseManager.current_db_path: a path or NoPath
    lock,              \* DatabaseManager._lock: the thread holding it, or NoThread
    handleState,       \* per handle: "free" (no such object), "open" or "closed"
    handleFile,        \* per handle: the file it was opened on
    db,                \* per database file: the ids of the rows of t, in order
    config,            \* sqlite_opus.config: the attributes of the Config object
    pc,                \* per thread: where it is in its call
    frame,             \* per thread: the locals of its call (page_arg, per_page_arg:
                       \* the page and per_page execute_query_paginated was given;
                       \* auth: request.authorization; bind_args: bind's arguments)
    result             \* per thread: what its call returned (at pc = "done")

vars == <<connection, current_db_path, lock, handleState, handleFile, db, config,
          pc, frame, result>>

managerVars == <<connection, current_db_path, handleState, handleFile>>

NoPagination ==
    [present |-> FALSE, page |-> 0, per_page |-> 0, total_count |-> 0, total_pages |-> 0]

NoResult == [op |-> "none"]

EmptyFrame ==
    [handler |-> "none", op |-> "none", db_path |-> NoPath, query |-> "", page |-> 0,
     per_page |-> 0, page_arg |-> 0, per_page_arg |-> 0, max_results |-> 0,
     total_count |-> 0, offset |-> 0,
     cursor |-> NoHandle, connected |-> FALSE, status_path |-> NoPath,
     auth |-> <<>>, table_name |-> "", bind_args |-> <<>>]

\* The tables after n inserts into an empty t.
RECURSIVE RowsUpTo(_)
RowsUpTo(n) == IF n = 0 THEN <<>> ELSE Append(RowsUpTo(n - 1), n)

\* config after construction (core.py Config.__init__).
DefaultMaxQueryResults == 1000

\* getattr(config, "query_results_per_page", 50)
DefaultPerPage == 50

InitManager ==
    /\ connection = NoHandle
    /\ current_db_path = NoPath
    /\ lock = NoThread
    /\ handleState = [h \in Handles |-> "free"]
    /\ handleFile = [h \in Handles |-> NoPath]
    /\ db \in [DatabaseFiles -> {RowsUpTo(n) : n \in 0..MaxRows}]
    /\ pc = [t \in Threads |-> "idle"]
    /\ frame = [t \in Threads |-> EmptyFrame]
    /\ result = [t \in Threads |-> NoResult]

\* config after construction (core.py Config.__init__). app is whether bind has
\* stored the application; an attribute that is None is <<>>, one set to v is <<v>>.
DefaultConfig ==
    [app |-> FALSE, url_prefix |-> "sqlite-opus",
     max_query_results |-> DefaultMaxQueryResults, enable_cors |-> TRUE,
     db_path |-> <<>>, auth_user |-> <<>>, auth_password |-> <<>>, allow_dml |-> FALSE]

\* config once bind(app) has run with nothing configured.
BoundConfig == [DefaultConfig EXCEPT !.app = TRUE]

Init ==
    /\ InitManager
    /\ config = BoundConfig

(***************************************************************************)
(* Helpers of the actions.                                                 *)
(***************************************************************************)

\* A connect that takes every path for an existing one.
PathAlwaysExists(p) == TRUE

\* Path(db_path).exists()
PathExists(p) == p # MissingPath

\* Whether sqlite3.connect(db_path) returns a connection (it raises otherwise).
OpenSucceeds(p) == p \in DatabaseFiles

\* A failure envelope that keeps rows of a result.
FailureKeepingRows(op, message) ==
    [op |-> op, success |-> FALSE, error |-> message, results |-> <<1>>,
     columns |-> <<"id">>, rowcount |-> 0, pagination |-> NoPagination]

\* The failure envelope of execute_query.
Failure(op, message) ==
    [op |-> op, success |-> FALSE, error |-> message, results |-> <<>>, columns |-> <<>>,
     rowcount |-> 0, pagination |-> NoPagination]

\* An exception that leaves the method instead of being turned into an envelope.
Escapes(op, message) == [op |-> op, raised |-> TRUE, error |-> message]

\* except Exception as e: the failure envelope carrying str(e).
Caught(op, message) == Failure(op, message)

\* A connection object nobody refers to any more is gone: its identity is free.
Collect(hs, conn, frames) ==
    [h \in Handles |->
        IF hs[h] = "closed" /\ h # conn /\ \A t \in Threads : frames[t].cursor # h
        THEN "free" ELSE hs[h]]

CollectFile(hs, hf) == [h \in Handles |-> IF hs[h] = "free" THEN NoPath ELSE hf[h]]

\* What self.connection.cursor() followed by cursor.execute would raise before the
\* statement reaches the engine ("" when it raises nothing).
CursorError(conn) ==
    IF conn = NoHandle THEN "'NoneType' object has no attribute 'cursor'"
    ELSE IF handleState[conn] # "open" THEN "Cannot operate on a closed database."
    ELSE ""

\* The manager call of thread t returns r to its caller: to the route handler
\* that made it, and from there (or directly) to the client.
Return(t, r) ==
    /\ pc' = [pc EXCEPT ![t] = IF frame[t].handler \in {"connect_database",
                                                     "disconnect_database", "get_status",
                                                     "execute_query_route", "index",
                                                     "bind"}
                                THEN "h_ret" ELSE "done"]
    /\ result' = [result EXCEPT ![t] = r]

\* An exit from the with block that leaves the lock with its holder.
LockKept(t) == lock

\* The lock after thread t leaves its with block.
Release(t) == IF lock = t THEN NoThread ELSE lock

\* The success envelope of execute_query and execute_query_paginated.
Success(op, results, columns, rowcount, pagination) ==
    [op |-> op, success |-> TRUE, error |-> "", results |-> results, columns |-> columns,
     rowcount |-> rowcount, pagination |-> pagination]

\* q = query.strip().rstrip(";").strip()
Trimmed(query) == Strip(RStripSemicolon(Strip(query)))

\* A page used as it was given.
PageAsGiven(page) == page

\* page = max(1, page)
ClampPage(page) == IF page < 1 THEN 1 ELSE page

\* per_page = max(1, min(per_page, max_results))
ClampPerPage(per_page, max_results) ==
    LET m == IF per_page < max_results THEN per_page ELSE max_results
    IN  IF m < 1 THEN 1 ELSE m

\* An offset that starts a page one page late.
OffsetOfNextPage(page, per_page) == page * per_page

\* offset = (page - 1) * per_page
Offset(page, per_page) == (page - 1) * per_page

\* A page count that rounds down.
TotalPagesFloor(total_count, per_page) == total_count \div per_page

\* total_pages = (total_count + per_page - 1) // per_page if total_count > 0 else 0
TotalPages(total_count, per_page) ==
    IF total_count > 0 THEN (total_count + per_page - 1) \div per_page ELSE 0

\* count_query = f"SELECT COUNT(*) FROM ({base_query}) AS _cnt"
CountQuery(base_query) == "SELECT COUNT(*) FROM (" \o base_query \o ") AS _cnt"

\* data_query = f"{base_query} LIMIT {limit} OFFSET {offset}"
DataQuery(base_query, limit, offset) ==
    base_query \o " LIMIT " \o ToStr(limit) \o " OFFSET " \o ToStr(offset)

\* A paginated query that gives the lock up between its two statements.
LockReleasedAfterCount(t) == NoThread

\* The holder of the lock between the count query and the windowed fetch: both
\* run in one with block.
LockAcrossCountAndFetch(t) == t

(***************************************************************************)
(* DatabaseManager.connect (database.py 37-55)                             *)
(***************************************************************************)

\* db_manager.connect(db_path) is called.
Connect(t, db_path) ==
    /\ pc[t] = "idle"
    /\ frame' = [frame EXCEPT ![t] = [EmptyFrame EXCEPT !.op = "connect",
                                                        !.db_path = db_path]]
    /\ pc' = [pc EXCEPT ![t] = "c_check"]
    /\ UNCHANGED <<managerVars, lock, db, config, result>>

\* if not path.exists(): return False
ConnectCheck(t) ==
    /\ pc[t] = "c_check"
    /\ IF ~PathExists(frame[t].db_path)
       THEN Return(t, [op |-> "connect", success |-> FALSE])
       ELSE /\ pc' = [pc EXCEPT ![t] = "c_lock"]
            /\ UNCHANGED result
    /\ UNCHANGED <<managerVars, lock, db, config, frame>>

\* with self._lock:
ConnectAcquire(t) ==
    /\ pc[t] = "c_lock"
    /\ lock = NoThread
    /\ lock' = t
    /\ pc' = [pc EXCEPT ![t] = "c_close"]
    /\ UNCHANGED <<managerVars, db, config, frame, result>>

\* A connect that does not close the handle it replaces.
ConnectKeepOld(t) ==
    /\ pc[t] = "c_close"
    /\ pc' = [pc EXCEPT ![t] = "c_open"]
    /\ UNCHANGED <<managerVars, lock, db, config, frame, result>>

\* if self.connection: self.connection.close()
ConnectClose(t) ==
    /\ pc[t] = "c_close"
    /\ handleState' = IF connection # NoHandle
                      THEN [handleState EXCEPT ![connection] = "closed"]
                      ELSE handleState
    /\ pc' = [pc EXCEPT ![t] = "c_open"]
    /\ UNCHANGED <<connection, current_db_path, handleFile, lock, db, config, frame, result>>

\* self.connection = sqlite3.connect(db_path, ...); an exception leaves the with
\* block (releasing the lock) and connect returns False.
ConnectOpen(t) ==
    /\ pc[t] = "c_open"
    /\ IF OpenSucceeds(frame[t].db_path)
       THEN \E h \in Handles :
                /\ handleState[h] = "free"
                /\ \A g \in Handles : handleState[g] = "free" => h <= g
                /\ connection' = h
                /\ LET hs == [handleState EXCEPT ![h] = "open"]
                       hf == [handleFile EXCEPT ![h] = frame[t].db_path]
                   IN  /\ handleState' = Collect(hs, h, frame)
                       /\ handleFile' = CollectFile(Collect(hs, h, frame), hf)
                /\ pc' = [pc EXCEPT ![t] = "c_path"]
                /\ UNCHANGED <<lock, result>>
       ELSE /\ lock' = NoThread
            /\ Return(t, [op |-> "connect", success |-> FALSE])
            /\ UNCHANGED <<connection, handleState, handleFile>>
    /\ UNCHANGED <<current_db_path, db, config, frame>>

\* self.current_db_path = db_path; the lock is released; return True.
ConnectSetPath(t) ==
    /\ pc[t] = "c_path"
    /\ current_db_path' = frame[t].db_path
    /\ lock' = NoThread
    /\ Return(t, [op |-> "connect", success |-> TRUE])
    /\ UNCHANGED <<connection, handleState, handleFile, db, config, frame>>

(***************************************************************************)
(* DatabaseManager.disconnect (database.py 57-62)                          *)
(***************************************************************************)

\* db_manager.disconnect() is called.
Disconnect(t) ==
    /\ pc[t] = "idle"
    /\ frame' = [frame EXCEPT ![t] = [EmptyFrame EXCEPT !.op = "disconnect"]]
    /\ pc' = [pc EXCEPT ![t] = "d_lock"]
    /\ UNCHANGED <<managerVars, lock, db, config, result>>

DisconnectAcquire(t) ==
    /\ pc[t] = "d_lock"
    /\ lock = NoThread
    /\ lock' = t
    /\ pc' = [pc EXCEPT ![t] = "d_close"]
    /\ UNCHANGED <<managerVars, db, config, frame, result>>

\* if self.connection: self.connection.close()
DisconnectClose(t) ==
    /\ pc[t] = "d_close"
    /\ IF connection # NoHandle
       THEN /\ handleState' = [handleState EXCEPT ![connection] = "closed"]
            /\ pc' = [pc EXCEPT ![t] = "d_connection"]
            /\ UNCHANGED <<lock, result>>
       ELSE /\ lock' = NoThread
            /\ Return(t, [op |-> "disconnect"])
            /\ UNCHANGED handleState
    /\ UNCHANGED <<connection, current_db_path, handleFile, db, config, frame>>

\* self.connection = None
DisconnectClearConnection(t) ==
    /\ pc[t] = "d_connection"
    /\ connection' = NoHandle
    /\ handleState' = Collect(handleState, NoHandle, frame)
    /\ handleFile' = CollectFile(Collect(handleState, NoHandle, frame), handleFile)
    /\ pc' = [pc EXCEPT ![t] = "d_path"]
    /\ UNCHANGED <<current_db_path, lock, db, config, frame, result>>

\* self.current_db_path = None; the lock is released.
DisconnectClearPath(t) ==
    /\ pc[t] = "d_path"
    /\ current_db_path' = NoPath
    /\ lock' = NoThread
    /\ Return(t, [op |-> "disconnect"])
    /\ UNCHANGED <<connection, handleState, handleFile, db, config, frame>>

(***************************************************************************)
(* DatabaseManager.execute_query (database.py 64-100)                      *)
(***************************************************************************)

\* db_manager.execute_query(query) is called.
ExecuteQuery(t, query) ==
    /\ pc[t] = "idle"
    /\ frame' = [frame EXCEPT ![t] = [EmptyFrame EXCEPT !.op = "execute_query",
                                                        !.query = query]]
    /\ pc' = [pc EXCEPT ![t] = "ex_check"]
    /\ UNCHANGED <<managerVars, lock, db, config, result>>

\* if not self.connection: return the failure envelope
ExecuteQueryCheck(t) ==
    /\ pc[t] = "ex_check"
    /\ IF connection = NoHandle
       THEN Return(t, Failure("execute_query", "No database connection"))
       ELSE /\ pc' = [pc EXCEPT ![t] = "ex_lock"]
            /\ UNCHANGED result
    /\ UNCHANGED <<managerVars, lock, db, config, frame>>

\* with self._lock:
ExecuteQueryAcquire(t) ==
    /\ pc[t] = "ex_lock"
    /\ lock = NoThread
    /\ lock' = t
    /\ pc' = [pc EXCEPT ![t] = "ex_run"]
    /\ UNCHANGED <<managerVars, db, config, frame, result>>

\* The try block: cursor, execute, fetchall or commit, and the envelope; any
\* exception becomes the failure envelope. The lock is released on the way out.
ExecuteQueryRun(t) ==
    /\ pc[t] = "ex_run"
    /\ LET query == frame[t].query
           err   == CursorError(connection)
       IN  IF err # ""
           THEN /\ Return(t, Caught("execute_query", err))
                /\ UNCHANGED db
           ELSE LET file == handleFile[connection]
                    r    == EngineExecute(query, db[file])
                IN  IF ~r.ok
                    THEN /\ Return(t, Caught("execute_query", r.error))
                         /\ UNCHANGED db
                    ELSE IF IsSelect(query)
                    THEN /\ Return(t, Success("execute_query", r.rows, <<"id">>,
                                              r.rowcount, NoPagination))
                         /\ UNCHANGED db
                    ELSE /\ db' = [db EXCEPT ![file] = r.table]
                         /\ Return(t, Success("execute_query", <<>>, <<>>,
                                              r.rowcount, NoPagination))
    /\ lock' = Release(t)
    /\ UNCHANGED <<managerVars, config, frame>>

(***************************************************************************)
(* DatabaseManager.execute_query_paginated (database.py 102-163)           *)
(***************************************************************************)

\* db_manager.execute_query_paginated(query, page, per_page, max_results) is called.
ExecuteQueryPaginated(t, query, page, per_page, max_results) ==
    /\ pc[t] = "idle"
    /\ frame' = [frame EXCEPT ![t] =
                    [EmptyFrame EXCEPT !.op = "execute_query_paginated", !.query = query,
                                       !.page = page, !.per_page = per_page,
                                       !.page_arg = page, !.per_page_arg = per_page,
                                       !.max_results = max_results]]
    /\ pc' = [pc EXCEPT ![t] = "pg_check"]
    /\ UNCHANGED <<managerVars, lock, db, config, result>>

\* The connected check, the delegation of a non-SELECT to execute_query, and the
\* clamping of page and per_page.
PaginatedCheck(t) ==
    /\ pc[t] = "pg_check"
    /\ IF connection = NoHandle
       THEN /\ Return(t, Failure("execute_query_paginated", "No database connection"))
            /\ UNCHANGED frame
       ELSE IF ~StartsWith(Upper(Trimmed(frame[t].query)), "SELECT")
       THEN /\ frame' = [frame EXCEPT ![t].op = "execute_query"]
            /\ pc' = [pc EXCEPT ![t] = "ex_check"]
            /\ UNCHANGED result
       ELSE /\ frame' = [frame EXCEPT
                            ![t].page = ClampPage(frame[t].page),
                            ![t].per_page = ClampPerPage(frame[t].per_page,
                                                         frame[t].max_results)]
            /\ pc' = [pc EXCEPT ![t] = "pg_lock"]
            /\ UNCHANGED result
    /\ UNCHANGED <<managerVars, lock, db, config>>

\* with self._lock:
PaginatedAcquire(t) ==
    /\ pc[t] = "pg_lock"
    /\ lock = NoThread
    /\ lock' = t
    /\ pc' = [pc EXCEPT ![t] = "pg_count"]
    /\ UNCHANGED <<managerVars, db, config, frame, result>>

\* cursor = self.connection.cursor(); the count query; total_count.
PaginatedCount(t) ==
    /\ pc[t] = "pg_count"
    /\ LET err == CursorError(connection)
       IN  IF err # ""
           THEN /\ Return(t, Caught("execute_query_paginated", err))
                /\ lock' = Release(t)
                /\ UNCHANGED frame
           ELSE LET base_query == StripLimitOffset(Trimmed(frame[t].query))
                    r == EngineExecute(CountQuery(base_query), db[handleFile[connection]])
                IN  IF ~r.ok
                    THEN /\ Return(t, Caught("execute_query_paginated", r.error))
                         /\ lock' = Release(t)
                         /\ UNCHANGED frame
                    ELSE /\ frame' = [frame EXCEPT ![t].total_count = r.rows[1],
                                                   ![t].cursor = connection]
                         /\ pc' = [pc EXCEPT ![t] = "pg_fetch"]
                         /\ lock' = LockAcrossCountAndFetch(t)
                         /\ UNCHANGED result
    /\ UNCHANGED <<managerVars, db, config>>

\* offset, limit, total_pages; the windowed fetch on the same cursor; the envelope.
PaginatedFetch(t) ==
    /\ pc[t] = "pg_fetch"
    /\ LET page        == frame[t].page
           per_page    == frame[t].per_page
           total_count == frame[t].total_count
           cursor      == frame[t].cursor
           base_query  == StripLimitOffset(Trimmed(frame[t].query))
           offset      == Offset(page, per_page)
           limit       == per_page
           total_pages == TotalPages(total_count, per_page)
           frames      == [frame EXCEPT ![t].offset = offset, ![t].cursor = NoHandle]
       IN  /\ frame' = frames
           /\ IF handleState[cursor] # "open"
              THEN Return(t, Caught("execute_query_paginated",
                                     "Cannot operate on a closed database."))
              ELSE LET r == EngineExecute(DataQuery(base_query, limit, offset),
                                          db[handleFile[cursor]])
                   IN  IF ~r.ok
                       THEN Return(t, Caught("execute_query_paginated", r.error))
                       ELSE Return(t, Success("execute_query_paginated", r.rows, <<"id">>,
                                              Len(r.rows),
                                              [present |-> TRUE, page |-> page,
                                               per_page |-> per_page,
                                               total_count |-> total_count,
                                               total_pages |-> total_pages]))
    /\ lock' = Release(t)
    /\ UNCHANGED <<managerVars, db, config>>

(***************************************************************************)
(* DatabaseManager.get_tables (database.py 165-177)                        *)
(***************************************************************************)

\* db_manager.get_tables() is called.
GetTables(t) ==
    /\ pc[t] = "idle"
    /\ frame' = [frame EXCEPT ![t] = [EmptyFrame EXCEPT !.op = "get_tables"]]
    /\ pc' = [pc EXCEPT ![t] = "gt_check"]
    /\ UNCHANGED <<managerVars, lock, db, config, result>>

\* if not self.connection: return []
GetTablesCheck(t) ==
    /\ pc[t] = "gt_check"
    /\ IF connection = NoHandle
       THEN Return(t, [op |-> "get_tables", tables |-> <<>>])
       ELSE /\ pc' = [pc EXCEPT ![t] = "gt_lock"]
            /\ UNCHANGED result
    /\ UNCHANGED <<managerVars, lock, db, config, frame>>

\* with self._lock:
GetTablesAcquire(t) ==
    /\ pc[t] = "gt_lock"
    /\ lock = NoThread
    /\ lock' = t
    /\ pc' = [pc EXCEPT ![t] = "gt_run"]
    /\ UNCHANGED <<managerVars, db, config, frame, result>>

\* The listing of sqlite_master (every database file holds the one table t); an
\* exception gives the empty list.
GetTablesRun(t) ==
    /\ pc[t] = "gt_run"
    /\ Return(t, [op |-> "get_tables",
                  tables |-> IF CursorError(connection) # "" THEN <<>> ELSE <<"t">>])
    /\ lock' = Release(t)
    /\ UNCHANGED <<managerVars, db, config, frame>>

\* The caller takes the returned value; the thread is free for its next call.
Complete(t) ==
    /\ pc[t] = "done"
    /\ pc' = [pc EXCEPT ![t] = "idle"]
    /\ frame' = [frame EXCEPT ![t] = EmptyFrame]
    /\ result' = [result EXCEPT ![t] = NoResult]
    /\ UNCHANGED <<managerVars, lock, db, config>>

(***************************************************************************)
(* routes.py: get_status (66-74), with DatabaseManager.is_connected        *)
(***************************************************************************)

\* GET /api/status arrives.
GetStatus(t) ==
    /\ pc[t] = "idle"
    /\ frame' = [frame EXCEPT ![t] = [EmptyFrame EXCEPT !.handler = "get_status"]]
    /\ pc' = [pc EXCEPT ![t] = "st_connected"]
    /\ UNCHANGED <<managerVars, lock, db, config, result>>

\* "connected": db_manager.is_connected()  (no lock)
StatusReadConnected(t) ==
    /\ pc[t] = "st_connected"
    /\ frame' = [frame EXCEPT ![t].connected = (connection # NoHandle)]
    /\ pc' = [pc EXCEPT ![t] = "st_path"]
    /\ UNCHANGED <<managerVars, lock, db, config, result>>

\* "db_path": db_manager.current_db_path  (no lock)
StatusReadPath(t) ==
    /\ pc[t] = "st_path"
    /\ frame' = [frame EXCEPT ![t].status_path = current_db_path]
    /\ pc' = [pc EXCEPT ![t] = "st_tables"]
    /\ UNCHANGED <<managerVars, lock, db, config, result>>

\* "tables": db_manager.get_tables() if db_manager.is_connected() else []
StatusTables(t) ==
    /\ pc[t] = "st_tables"
    /\ IF connection # NoHandle
       THEN /\ frame' = [frame EXCEPT ![t].op = "get_tables"]
            /\ pc' = [pc EXCEPT ![t] = "gt_check"]
            /\ UNCHANGED result
       ELSE /\ pc' = [pc EXCEPT ![t] = "done"]
            /\ result' = [result EXCEPT ![t] =
                             [op |-> "get_status", connected |-> frame[t].connected,
                              db_path |-> frame[t].status_path, tables |-> <<>>]]
            /\ UNCHANGED frame
    /\ UNCHANGED <<managerVars, lock, db, config>>

\* get_tables has returned to get_status: the response.
StatusRespond(t) ==
    /\ pc[t] = "h_ret"
    /\ frame[t].handler = "get_status"
    /\ pc' = [pc EXCEPT ![t] = "done"]
    /\ result' = [result EXCEPT ![t] =
                     [op |-> "get_status", connected |-> frame[t].connected,
                      db_path |-> frame[t].status_path, tables |-> result[t].tables]]
    /\ UNCHANGED <<managerVars, lock, db, config, frame>>

(***************************************************************************)
(* routes.py: connect_database (36-58), disconnect_database (60-64)        *)
(***************************************************************************)

\* POST /api/connect {db_path} arrives; an absent or empty db_path is a 400.
ConnectDatabase(t, db_path) ==
    /\ pc[t] = "idle"
    /\ IF db_path = ""
       THEN /\ pc' = [pc EXCEPT ![t] = "done"]
            /\ result' = [result EXCEPT ![t] =
                             [op |-> "connect_database", success |-> FALSE,
                              error |-> "Database path required", status |-> 400]]
            /\ frame' = [frame EXCEPT ![t] =
                            [EmptyFrame EXCEPT !.handler = "connect_database"]]
       ELSE /\ frame' = [frame EXCEPT ![t] =
                            [EmptyFrame EXCEPT !.handler = "connect_database",
                                               !.op = "connect", !.db_path = db_path]]
            /\ pc' = [pc EXCEPT ![t] = "c_check"]
            /\ UNCHANGED result
    /\ UNCHANGED <<managerVars, lock, db, config>>

\* connect has returned to connect_database: on success the tables are listed.
ConnectDatabaseConnected(t) ==
    /\ pc[t] = "h_ret"
    /\ frame[t].handler = "connect_database"
    /\ result[t].op = "connect"
    /\ IF result[t].success
       THEN /\ frame' = [frame EXCEPT ![t].op = "get_tables"]
            /\ pc' = [pc EXCEPT ![t] = "gt_check"]
            /\ UNCHANGED result
       ELSE /\ pc' = [pc EXCEPT ![t] = "done"]
            /\ result' = [result EXCEPT ![t] =
                             [op |-> "connect_database", success |-> FALSE,
                              error |-> "Failed to connect to database", status |-> 400]]
            /\ UNCHANGED frame
    /\ UNCHANGED <<managerVars, lock, db, config>>

\* get_tables has returned to connect_database: the response.
ConnectDatabaseRespond(t) ==
    /\ pc[t] = "h_ret"
    /\ frame[t].handler = "connect_database"
    /\ result[t].op = "get_tables"
    /\ pc' = [pc EXCEPT ![t] = "done"]
    /\ result' = [result EXCEPT ![t] =
                     [op |-> "connect_database", success |-> TRUE,
                      tables |-> result[t].tables, status |-> 200]]
    /\ UNCHANGED <<managerVars, lock, db, config, frame>>

\* POST /api/disconnect arrives.
DisconnectDatabase(t) ==
    /\ pc[t] = "idle"
    /\ frame' = [frame EXCEPT ![t] = [EmptyFrame EXCEPT !.handler = "disconnect_database",
                                                        !.op = "disconnect"]]
    /\ pc' = [pc EXCEPT ![t] = "d_lock"]
    /\ UNCHANGED <<managerVars, lock, db, config, result>>

\* disconnect has returned to disconnect_database: the response.
DisconnectDatabaseRespond(t) ==
    /\ pc[t] = "h_ret"
    /\ frame[t].handler = "disconnect_database"
    /\ pc' = [pc EXCEPT ![t] = "done"]
    /\ result' = [result EXCEPT ![t] =
                     [op |-> "disconnect_database", success |-> TRUE, status |-> 200]]
    /\ UNCHANGED <<managerVars, lock, db, config, frame>>

(***************************************************************************)
(* routes.py: get_query_result (98-130). An optional integer argument is   *)
(* <<>> for None and <<n>> for the integer n.                              *)
(***************************************************************************)

DenialMessage ==
    "DML queries (INSERT/UPDATE/DELETE/CREATE/TRUNCATE/REPLACE) are not allowed. Set config.allow_dml = True to enable."

\* use_pagination
UsePagination(query, page) == IsSelect(query) /\ page # <<>> /\ page[1] >= 1

\* The per_page passed on to execute_query_paginated.
RequestPerPage(per_page, max_query_results) ==
    LET pp == IF per_page = <<>> \/ per_page[1] < 1 THEN DefaultPerPage ELSE per_page[1]
    IN  IF pp < max_query_results THEN pp ELSE max_query_results

\* The statement of a request that is not paginated: a SELECT whose upper-cased
\* text does not contain "LIMIT" gets the cap appended.
ApplyDefaultLimit(query, max_query_results) ==
    IF IsSelect(query) /\ ~Contains(Upper(query), "LIMIT")
    THEN RStripSemicolon(query) \o " LIMIT " \o ToStr(max_query_results)
    ELSE query

\* get_query_result(query, page, per_page), up to its call of the manager, made
\* directly (handler "get_query_result") or by the route execute_query.
QueryResult(t, handler, query, page, per_page) ==
    /\ pc[t] = "idle"
    /\ LET entry == [EmptyFrame EXCEPT !.handler = handler, !.query = query]
           refuse(message) ==
               /\ pc' = [pc EXCEPT ![t] = IF handler = "get_query_result"
                                          THEN "done" ELSE "h_ret"]
               /\ result' = [result EXCEPT ![t] =
                                [op |-> "get_query_result", success |-> FALSE,
                                 error |-> message]]
               /\ frame' = [frame EXCEPT ![t] = entry]
       IN  IF connection = NoHandle THEN refuse("Not connected")
           ELSE IF query = "" THEN refuse("Query required")
           ELSE IF contains_dml(query) /\ ~config.allow_dml THEN refuse(DenialMessage)
           ELSE IF UsePagination(query, page)
           THEN /\ frame' = [frame EXCEPT ![t] =
                                [entry EXCEPT
                                    !.op = "execute_query_paginated",
                                    !.page = page[1],
                                    !.page_arg = page[1],
                                    !.per_page = RequestPerPage(per_page,
                                                                config.max_query_results),
                                    !.per_page_arg = RequestPerPage(per_page,
                                                                config.max_query_results),
                                    !.max_results = config.max_query_results]]
                /\ pc' = [pc EXCEPT ![t] = "pg_check"]
                /\ UNCHANGED result
           ELSE /\ frame' = [frame EXCEPT ![t] =
                                [entry EXCEPT
                                    !.op = "execute_query",
                                    !.query = ApplyDefaultLimit(query,
                                                                config.max_query_results)]]
                /\ pc' = [pc EXCEPT ![t] = "ex_check"]
                /\ UNCHANGED result
    /\ UNCHANGED <<managerVars, lock, db, config>>

GetQueryResult(t, query, page, per_page) ==
    QueryResult(t, "get_query_result", query, page, per_page)

(***************************************************************************)
(* routes.py: execute_query (132-176), the POST query route. The body's    *)
(* page and per_page are optional integers.                                *)
(***************************************************************************)

\* What the route hands to the client: the status and the template's arguments.
Response(status, success, error, results, columns, pagination, page_numbers) ==
    [op |-> "execute_query_route", status |-> status, success |-> success,
     error |-> error, results |-> results, columns |-> columns,
     pagination |-> pagination, page_numbers |-> page_numbers]

\* result.get(key, default)
Get(r, key, default) == IF key \in DOMAIN r THEN r[key] ELSE default

\* page_numbers: 1, total_pages and the pages within two of the current one, when
\* there is more than one page.
PageNumbers(pagination) ==
    IF pagination.present /\ pagination.total_pages > 1
    THEN LET pn == pagination.page
             tp == pagination.total_pages
             lo == IF pn - 2 > 1 THEN pn - 2 ELSE 1
             hi == IF pn + 2 < tp THEN pn + 2 ELSE tp
         IN  {1, tp} \cup (lo..hi)
    ELSE {}

\* POST /api/query/ {query, page, per_page} arrives: an absent or blank query is a
\* 400; otherwise get_query_result is called with page defaulting to 1 and
\* per_page to the default page size.
ExecuteQueryRequest(t, query, page, per_page) ==
    LET q == Strip(query)
    IN  IF q = ""
        THEN /\ pc[t] = "idle"
             /\ pc' = [pc EXCEPT ![t] = "done"]
             /\ frame' = [frame EXCEPT ![t] =
                             [EmptyFrame EXCEPT !.handler = "execute_query_route"]]
             /\ result' = [result EXCEPT ![t] =
                              Response(400, FALSE, "Query required", <<>>, <<>>,
                                       NoPagination, {})]
             /\ UNCHANGED <<managerVars, lock, db, config>>
        ELSE QueryResult(t, "execute_query_route", q,
                         IF page = <<>> THEN <<1>> ELSE page,
                         IF per_page = <<>> THEN <<DefaultPerPage>> ELSE per_page)

\* get_query_result has returned to the route: the partial is rendered, with no
\* status given (200).
ExecuteQueryRespond(t) ==
    /\ pc[t] = "h_ret"
    /\ frame[t].handler = "execute_query_route"
    /\ pc' = [pc EXCEPT ![t] = "done"]
    /\ LET r          == result[t]
           pagination == Get(r, "pagination", NoPagination)
       IN  result' = [result EXCEPT ![t] =
                         Response(200, r.success, Get(r, "error", ""),
                                  Get(r, "results", <<>>), Get(r, "columns", <<>>),
                                  pagination, PageNumbers(pagination))]
    /\ UNCHANGED <<managerVars, lock, db, config, frame>>

(***************************************************************************)
(* routes.py: basic_auth_required (178-194) around index (19-34).          *)
(* request.authorization is <<>> when the request carries no credentials   *)
(* and <<[username, password]>> when it does.                              *)
(***************************************************************************)

\* config.auth_user or ''
OrEmpty(v) == IF v = <<>> THEN "" ELSE v[1]

\* if not username and not password: the view is called without any check.
GateOpen(username, password) == username = "" /\ password = ""

\* A gate that lets a request in on its username alone.
AuthorizedByName(auth, username, password) ==
    auth # <<>> /\ auth[1].username = username

\* not (not auth or auth.username != username or auth.password != password)
Authorized(auth, username, password) ==
    /\ auth # <<>>
    /\ auth[1].username = username
    /\ auth[1].password = password

\* GET / arrives with the credentials auth: the decorator either answers with the
\* 401 challenge or calls the view.
Index(t, auth) ==
    /\ pc[t] = "idle"
    /\ config.app
    /\ LET username == OrEmpty(config.auth_user)
           password == OrEmpty(config.auth_password)
       IN  IF GateOpen(username, password) \/ Authorized(auth, username, password)
           THEN /\ pc' = [pc EXCEPT ![t] = "ix_view"]
                /\ UNCHANGED result
           ELSE /\ pc' = [pc EXCEPT ![t] = "done"]
                /\ result' = [result EXCEPT ![t] =
                                 [op |-> "index", status |-> 401,
                                  body |-> "Login required"]]
    /\ frame' = [frame EXCEPT ![t] = [EmptyFrame EXCEPT !.handler = "index",
                                                        !.auth = auth]]
    /\ UNCHANGED <<managerVars, lock, db, config>>

\* The page the view renders.
IndexPage(tables) ==
    [op |-> "index", status |-> 200, body |-> "index.html",
     has_preconfigured_db |-> (config.db_path # <<>>),
     db_path |-> config.db_path, tables |-> tables]

\* index(): the tables are listed when a database path is configured and the
\* manager is connected.
IndexView(t) ==
    /\ pc[t] = "ix_view"
    /\ IF config.db_path # <<>> /\ connection # NoHandle
       THEN /\ frame' = [frame EXCEPT ![t].op = "get_tables"]
            /\ pc' = [pc EXCEPT ![t] = "gt_check"]
            /\ UNCHANGED result
       ELSE /\ pc' = [pc EXCEPT ![t] = "done"]
            /\ result' = [result EXCEPT ![t] = IndexPage(<<>>)]
            /\ UNCHANGED frame
    /\ UNCHANGED <<managerVars, lock, db, config>>

\* get_tables has returned to index: the page.
IndexRespond(t) ==
    /\ pc[t] = "h_ret"
    /\ frame[t].handler = "index"
    /\ pc' = [pc EXCEPT ![t] = "done"]
    /\ result' = [result EXCEPT ![t] = IndexPage(result[t].tables)]
    /\ UNCHANGED <<managerVars, lock, db, config, frame>>

(***************************************************************************)
(* routes.py: get_table_info (86-96). The route calls                      *)
(* db_manager.get_table_info, a method DatabaseManager (database.py        *)
(* 24-269) does not define: the attribute lookup raises AttributeError,    *)
(* which nothing in the route catches.                                     *)
(***************************************************************************)

\* The methods of DatabaseManager.
ManagerMethods ==
    {"connect", "disconnect", "execute_query", "execute_query_paginated", "get_tables",
     "get_table_schema", "_safe_table_identifier", "get_all_columns", "get_indexes",
     "is_connected"}

\* GET /api/table/<table_name> arrives.
GetTableInfo(t, table_name) ==
    /\ pc[t] = "idle"
    /\ config.app
    /\ frame' = [frame EXCEPT ![t] = [EmptyFrame EXCEPT !.handler = "get_table_info",
                                                        !.table_name = table_name]]
    /\ pc' = [pc EXCEPT ![t] = "done"]
    /\ result' = [result EXCEPT ![t] =
                     IF connection = NoHandle
                     THEN [op |-> "get_table_info", status |-> 400, success |-> FALSE,
                           error |-> "Not connected"]
                     ELSE IF "get_table_info" \notin ManagerMethods
                     THEN [op |-> "get_table_info", status |-> 500, raised |-> TRUE,
                           error |-> "'DatabaseManager' object has no attribute 'get_table_info'"]
                     ELSE [op |-> "get_table_info", status |-> 200, success |-> TRUE]]
    /\ UNCHANGED <<managerVars, lock, db, config>>

(***************************************************************************)
(* core.py: Config.init_from (23-50); __init__.py: bind (34-97).           *)
(***************************************************************************)

\* config.init_from(key=value), or the assignment config.key = value, before bind.
InitFrom(key, value) ==
    /\ ~config.app
    /\ config[key] # value
    /\ config' = [config EXCEPT ![key] = value]
    /\ UNCHANGED <<managerVars, lock, db, pc, frame, result>>

\* The value of a keyword argument of bind: the one passed, or its default.
Argument(arg, default) == IF arg = <<>> THEN default ELSE arg[1]

\* bind(app, url_prefix, enable_cors, max_query_results), each argument passed or
\* not (<<>>): the configuration is updated, then the manager connects to a
\* configured db_path.
Bind(t, url_prefix, enable_cors, max_query_results) ==
    /\ pc[t] = "idle"
    /\ ~config.app
    /\ config' = [config EXCEPT
                     !.app = TRUE,
                     !.url_prefix = IF url_prefix = <<>> THEN @ ELSE url_prefix[1],
                     !.enable_cors = Argument(enable_cors, TRUE),
                     !.max_query_results =
                         Argument(max_query_results, DefaultMaxQueryResults)]
    /\ LET entry == [EmptyFrame EXCEPT
                        !.handler = "bind",
                        !.bind_args = [url_prefix |-> url_prefix,
                                       enable_cors |-> enable_cors,
                                       max_query_results |-> max_query_results]]
       IN  IF config.db_path # <<>> /\ config.db_path[1] # ""
           THEN /\ frame' = [frame EXCEPT ![t] =
                                [entry EXCEPT !.op = "connect",
                                              !.db_path = config.db_path[1]]]
                /\ pc' = [pc EXCEPT ![t] = "c_check"]
                /\ UNCHANGED result
           ELSE /\ frame' = [frame EXCEPT ![t] = entry]
                /\ pc' = [pc EXCEPT ![t] = "done"]
                /\ result' = [result EXCEPT ![t] = [op |-> "bind", warned |-> FALSE]]
    /\ UNCHANGED <<managerVars, lock, db>>

\* connect has returned to bind: a failure is a warning; the routes are registered.
BindRegister(t) ==
    /\ pc[t] = "h_ret"
    /\ frame[t].handler = "bind"
    /\ pc' = [pc EXCEPT ![t] = "done"]
    /\ result' = [result EXCEPT ![t] = [op |-> "bind", warned |-> ~result[t].success]]
    /\ UNCHANGED <<managerVars, lock, db, config, frame>>

(***************************************************************************)
(* routes.py: contains_dml (196-209) applied to a text, and the write gate *)
(* of get_query_result (105-109) deciding on its value.                    *)
(***************************************************************************)

\* contains_dml(query) is evaluated on the text in the frame.
ContainsDml(t) ==
    /\ pc[t] = "cd_call"
    /\ pc' = [pc EXCEPT ![t] = "cd_gate"]
    /\ result' = [result EXCEPT ![t] =
                     [op |-> "contains_dml", value |-> contains_dml(frame[t].query)]]
    /\ UNCHANGED <<managerVars, lock, db, config, frame>>

\* if contains_dml(query) and not config.allow_dml: the denial; else the query
\* goes on to the manager.
WriteGate(t) ==
    /\ pc[t] = "cd_gate"
    /\ pc' = [pc EXCEPT ![t] = "done"]
    /\ result' = [result EXCEPT ![t] =
                     IF result[t].value /\ ~config.allow_dml
                     THEN [op |-> "write_gate", denied |-> TRUE, error |-> DenialMessage]
                     ELSE [op |-> "write_gate", denied |-> FALSE, error |-> ""]]
    /\ UNCHANGED <<managerVars, lock, db, config, frame>>

(***************************************************************************)
(* database.py: _strip_limit_offset (10-21) applied to a text, and applied *)
(* once more to what it returned.                                          *)
(***************************************************************************)

\* _strip_limit_offset(query) on the text in the frame.
StripCall(t) ==
    /\ pc[t] = "sl_call"
    /\ pc' = [pc EXCEPT ![t] = "sl_again"]
    /\ result' = [result EXCEPT ![t] =
                     [op |-> "_strip_limit_offset",
                      value |-> StripLimitOffset(frame[t].query),
                      again |-> <<>>]]
    /\ UNCHANGED <<managerVars, lock, db, config, frame>>

\* _strip_limit_offset on the text the first call returned.
StripAgain(t) ==
    /\ pc[t] = "sl_again"
    /\ pc' = [pc EXCEPT ![t] = "done"]
    /\ result' = [result EXCEPT ![t].again = <<StripLimitOffset(result[t].value)>>]
    /\ UNCHANGED <<managerVars, lock, db, config, frame>>

(***************************************************************************)
(* DatabaseManager._safe_table_identifier, get_all_columns, get_indexes    *)
(* (database.py 204-260). The two listings differ in the statements and in *)
(* the rows; method names which one runs.                                  *)
(***************************************************************************)

\* _safe_table_identifier(table_name): <<s>> for the stripped name when it is
\* alphanumeric apart from underscores, <<>> for None.
SafeTableIdentifier(table_name) ==
    LET s == Strip(table_name)
    IN  IF table_name = "" \/ s = "" THEN <<>>
        ELSE IF /\ FirstOutside(s, 1, WordChars) = Len(s) + 1
                /\ FirstOutside(s, 1, {"_"}) <= Len(s)
             THEN <<s>>
             ELSE <<>>

\* db_manager.get_all_columns(table_name) or get_indexes(table_name) is called.
Introspect(t, method, table_name) ==
    /\ pc[t] = "idle"
    /\ frame' = [frame EXCEPT ![t] = [EmptyFrame EXCEPT !.op = method,
                                                        !.table_name = table_name]]
    /\ pc' = [pc EXCEPT ![t] = "in_check"]
    /\ UNCHANGED <<managerVars, lock, db, config, result>>

\* if not self.connection: return []
IntrospectCheck(t) ==
    /\ pc[t] = "in_check"
    /\ IF connection = NoHandle
       THEN Return(t, [op |-> frame[t].op, value |-> <<>>, statements |-> <<>>])
       ELSE /\ pc' = [pc EXCEPT ![t] = "in_lock"]
            /\ UNCHANGED result
    /\ UNCHANGED <<managerVars, lock, db, config, frame>>

\* with self._lock:
IntrospectAcquire(t) ==
    /\ pc[t] = "in_lock"
    /\ lock = NoThread
    /\ lock' = t
    /\ pc' = [pc EXCEPT ![t] = "in_run"]
    /\ UNCHANGED <<managerVars, db, config, frame, result>>

\* The body under the lock. The table-valued function takes the name as a bound
\* parameter; where the engine raises OperationalError for it (supported is
\* FALSE) the PRAGMA is sent with the safe name in it, or nothing is sent when
\* there is none. statements lists what cursor.execute was given; the table t
\* has the one column id and no index, and the engine matches table names
\* without regard to case.
IntrospectRun(t) ==
    /\ pc[t] = "in_run"
    /\ \E supported \in BOOLEAN :
          LET method    == frame[t].op
              name      == frame[t].table_name
              columns   == method = "get_all_columns"
              function  == IF columns THEN "SELECT * FROM pragma_table_info(?)"
                           ELSE "SELECT * FROM pragma_index_list(?)"
              pragma(n) == (IF columns THEN "PRAGMA table_info(\"" ELSE "PRAGMA index_list(\"")
                              \o n \o "\")"
              rows(n)   == IF columns /\ Upper(n) = "T"
                           THEN <<[name |-> "id", type |-> "INTEGER", notnull |-> FALSE,
                                   dflt_value |-> <<>>, pk |-> TRUE]>>
                           ELSE <<>>
              safe_name == SafeTableIdentifier(name)
              answer(value, statements) ==
                  Return(t, [op |-> method, value |-> value, statements |-> statements])
          IN  IF CursorError(connection) # "" THEN answer(<<>>, <<>>)
              ELSE IF supported THEN answer(rows(name), <<function>>)
              ELSE IF safe_name = <<>> THEN answer(<<>>, <<function>>)
              ELSE answer(rows(safe_name[1]), <<function, pragma(safe_name[1])>>)
    /\ lock' = Release(t)
    /\ UNCHANGED <<managerVars, db, config, frame>>

(***************************************************************************)
(* Specifications.                                                         *)
(***************************************************************************)

SelectAll == "SELECT * FROM t"

InsertRow == "INSERT INTO t DEFAULT VALUES"

InsertOrIgnore == "INSERT OR IGNORE INTO t DEFAULT VALUES"

DeleteRows == "DELETE FROM t"

WriteQueries == {InsertRow, DeleteRows}

\* The steps the calls of the DatabaseManager are made of.
ManagerStep(t) ==
    \/ ConnectCheck(t)
    \/ ConnectAcquire(t)
    \/ ConnectClose(t)
    \/ ConnectOpen(t)
    \/ ConnectSetPath(t)
    \/ DisconnectAcquire(t)
    \/ DisconnectClose(t)
    \/ DisconnectClearConnection(t)
    \/ DisconnectClearPath(t)
    \/ ExecuteQueryCheck(t)
    \/ ExecuteQueryAcquire(t)
    \/ ExecuteQueryRun(t)
    \/ PaginatedCheck(t)
    \/ PaginatedAcquire(t)
    \/ PaginatedCount(t)
    \/ PaginatedFetch(t)
    \/ Complete(t)

\* The steps of get_tables and of the status request.
StatusStep(t) ==
    \/ GetTablesCheck(t)
    \/ GetTablesAcquire(t)
    \/ GetTablesRun(t)
    \/ StatusReadConnected(t)
    \/ StatusReadPath(t)
    \/ StatusTables(t)
    \/ StatusRespond(t)

\* Concurrent callers of one DatabaseManager: the thread "t1" makes any call
\* while the thread "t2" connects, disconnects and writes.
Next ==
    \/ \E t \in Threads :
        \/ \E p \in Paths : Connect(t, p)
        \/ Disconnect(t)
        \/ \E q \in WriteQueries : ExecuteQuery(t, q)
        \/ ManagerStep(t)
    \/ ExecuteQuery("t1", SelectAll)
    \/ \E q \in {"SELECT * FROM t LIMIT 1;", InsertRow}, page \in 1..2 :
           ExecuteQueryPaginated("t1", q, page, 1, 2)
    \/ GetStatus("t1")
    \/ StatusStep("t1")

Spec == Init /\ [][Next]_vars

\* Two request threads under fair scheduling. A thread that can take a step of
\* its call takes one; a thread waiting at with self._lock gets the lock if it is
\* free again and again. The steps that work on the query text (the check of
\* execute_query_paginated and the database calls under the lock) are named by
\* the position the thread leaves: they have no condition but that position, and
\* the database call is taken to return. The calls include the ones that leave
\* the with block by an exception (a path that does not open, a statement the
\* engine rejects) and the non-SELECT that execute_query_paginated hands to
\* execute_query.
SpecLive ==
    /\ Init
    /\ [][\/ \E t \in Threads :
               \/ \E p \in DatabaseFiles \cup {UnopenablePath} : Connect(t, p)
               \/ Disconnect(t)
               \/ \E q \in {DeleteRows, "SELECT * FROM nosuch"} : ExecuteQuery(t, q)
               \/ ManagerStep(t)
           \/ \E q \in {SelectAll, DeleteRows} : ExecuteQueryPaginated("t1", q, 1, 1, 2)
           \/ GetStatus("t1")
           \/ StatusStep("t1")]_vars
    /\ \A t \in Threads :
          /\ WF_vars(\/ ConnectCheck(t) \/ ConnectClose(t) \/ ConnectOpen(t)
                      \/ ConnectSetPath(t) \/ DisconnectClose(t)
                      \/ DisconnectClearConnection(t) \/ DisconnectClearPath(t)
                      \/ ExecuteQueryCheck(t) \/ Complete(t)
                      \/ GetTablesCheck(t) \/ GetTablesRun(t) \/ StatusReadConnected(t)
                      \/ StatusReadPath(t) \/ StatusTables(t) \/ StatusRespond(t))
          /\ SF_vars(ConnectAcquire(t) \/ DisconnectAcquire(t) \/ ExecuteQueryAcquire(t)
                        \/ PaginatedAcquire(t) \/ GetTablesAcquire(t))
          /\ WF_pc(/\ pc[t] \in {"pg_check", "ex_run", "pg_count", "pg_fetch"}
                    /\ \E p \in {"ex_check", "pg_lock", "pg_fetch", "done"} :
                           pc' = [pc EXCEPT ![t] = p])

\* One caller of the DatabaseManager, over a wider range of arguments.
SelectQueries ==
    {SelectAll, "select * from t limit 2 offset 1;",
     " Select * From t  OFFSET 1  LIMIT 1 ; ", "SELECT * FROM t LIMIT 1, 2"}

\* The largest page and per_page a caller passes (the smallest is -1).
MaxPage == 3

MaxPerPage == 3

\* The largest max_results (config.max_query_results) of a run.
MaxResults == 2

Pages == (0 - 1)..MaxPage

PerPages == (0 - 1)..MaxPerPage

NextSerial ==
    \/ \E p \in Paths : Connect("t1", p)
    \/ Disconnect("t1")
    \/ \E q \in WriteQueries \cup {SelectAll} : ExecuteQuery("t1", q)
    \/ \E q \in SelectQueries \cup {InsertRow}, page \in Pages, per_page \in PerPages,
          max_results \in 1..MaxResults :
           ExecuteQueryPaginated("t1", q, page, per_page, max_results)
    \/ ManagerStep("t1")

SpecSerial == Init /\ [][NextSerial]_vars

\* One client of the routes.
RequestQueries ==
    {SelectAll, "SELECT * FROM t LIMIT 2", "select * from t;", "SELECT * FROM t LIMIT 1, 2",
     "SELECT * FROM t AS unlimited", InsertRow, InsertOrIgnore, DeleteRows, ""}

Optional(S) == {<<>>} \cup {<<n>> : n \in S}

InitRoutes ==
    /\ InitManager
    /\ config \in {[BoundConfig EXCEPT !.allow_dml = a, !.max_query_results = m] :
                       a \in BOOLEAN, m \in 1..MaxResults}

NextRoutes ==
    \/ \E p \in Paths \cup {""} : ConnectDatabase("t1", p)
    \/ ConnectDatabaseConnected("t1")
    \/ ConnectDatabaseRespond("t1")
    \/ DisconnectDatabase("t1")
    \/ DisconnectDatabaseRespond("t1")
    \/ GetStatus("t1")
    \/ StatusStep("t1")
    \/ \E q \in RequestQueries, page \in Optional(0..MaxPage),
          per_page \in Optional(0..MaxPerPage) :
           GetQueryResult("t1", q, page, per_page)
    \/ \E q \in RequestQueries \cup {" "}, page \in Optional({0, 2}),
          per_page \in Optional({1}) :
           ExecuteQueryRequest("t1", q, page, per_page)
    \/ ExecuteQueryRespond("t1")
    \/ ManagerStep("t1")

SpecRoutes == InitRoutes /\ [][NextRoutes]_vars

\* The application from the construction of its configuration on: attributes are
\* set, bind runs once, then the index page and table info are requested.
ConfigValues ==
    [max_query_results |-> 1..MaxResults, enable_cors |-> BOOLEAN,
     db_path |-> {<<>>, <<"a.db">>, <<MissingPath>>},
     auth_user |-> {<<>>, <<"">>, <<"admin">>},
     auth_password |-> {<<>>, <<"">>, <<"secret">>}, allow_dml |-> BOOLEAN]

\* The credentials a request presents.
Credentials ==
    {<<>>} \cup {<<[username |-> u, password |-> p]>> :
                    u \in {"admin", "guest"}, p \in {"secret", ""}}

InitApp ==
    /\ InitManager
    /\ db = [f \in DatabaseFiles |-> <<1>>]
    /\ config = DefaultConfig

NextApp ==
    \/ \E key \in DOMAIN ConfigValues : \E value \in ConfigValues[key] :
           InitFrom(key, value)
    \/ \E url_prefix \in Optional({"my-dashboard"}), enable_cors \in Optional({FALSE}),
          max_query_results \in Optional(1..MaxResults) :
           Bind("t1", url_prefix, enable_cors, max_query_results)
    \/ BindRegister("t1")
    \/ \E auth \in Credentials : Index("t1", auth)
    \/ IndexView("t1")
    \/ IndexRespond("t1")
    \/ \E table_name \in {"t", "nosuch"} : GetTableInfo("t1", table_name)
    \/ ConnectCheck("t1")
    \/ ConnectAcquire("t1")
    \/ ConnectClose("t1")
    \/ ConnectOpen("t1")
    \/ ConnectSetPath("t1")
    \/ GetTablesCheck("t1")
    \/ GetTablesAcquire("t1")
    \/ GetTablesRun("t1")
    \/ Complete("t1")

SpecApp == InitApp /\ [][NextApp]_vars

\* The classifier on its own: texts made of a lead, a keyword or phrase in some
\* case, and a tail.
ClassifierTexts ==
    LET leads == {"", " ", "select * from t; ", "SELECT 1 -- "}
        words == {"insert into", "INSERT  INTO", "Update", "delete from", "CREATE",
                  "truncate", "Replace Into", "DROP", "alter",
                  "INSERT OR IGNORE INTO", "updated", "dropbox"}
        tails == {"", " t", "\tt", " \"t\" SET id = 1"}
    IN  {lead \o word \o tail : lead \in leads, word \in words, tail \in tails}

\* A request text reaches get_query_result.
Classify(t, text) ==
    /\ pc[t] = "idle"
    /\ frame' = [frame EXCEPT ![t] = [EmptyFrame EXCEPT !.handler = "contains_dml",
                                                        !.query = text]]
    /\ pc' = [pc EXCEPT ![t] = "cd_call"]
    /\ UNCHANGED <<managerVars, lock, db, config, result>>

NextClassifier ==
    \/ \E text \in ClassifierTexts : Classify("t1", text)
    \/ ContainsDml("t1")
    \/ WriteGate("t1")
    \/ Complete("t1")

SpecClassifier == InitRoutes /\ [][NextClassifier]_vars

\* The rewriter on its own: texts made of a base query, up to three trailing
\* clauses and an optional terminator.
RewriterBases ==
    {"SELECT * FROM t",
     "  select id from t where id > 1 ",
     "SELECT * FROM (SELECT * FROM t LIMIT 2 OFFSET 1) AS s",
     "SELECT * FROM (SELECT * FROM t LIMIT 2)",
     "SELECT 'a LIMIT 1' AS x"}

RewriterClauses == {" LIMIT 10", " OFFSET 20", "\nlimit  5"}

RewriterTerminators == {"", ";", " ; "}

\* The runs of n clauses.
RECURSIVE ClauseRuns(_)
ClauseRuns(n) ==
    IF n = 0 THEN {""}
    ELSE {run \o clause : run \in ClauseRuns(n - 1), clause \in RewriterClauses}

RewriterTexts ==
    {base \o run \o term :
        base \in RewriterBases,
        run \in ClauseRuns(0) \cup ClauseRuns(1) \cup ClauseRuns(2) \cup ClauseRuns(3),
        term \in RewriterTerminators}

\* A query text reaches execute_query_paginated, which strips it first.
Rewrite(t, text) ==
    /\ pc[t] = "idle"
    /\ frame' = [frame EXCEPT ![t] = [EmptyFrame EXCEPT !.handler = "_strip_limit_offset",
                                                        !.query = text]]
    /\ pc' = [pc EXCEPT ![t] = "sl_call"]
    /\ UNCHANGED <<managerVars, lock, db, config, result>>

NextRewriter ==
    \/ \E text \in RewriterTexts : Rewrite("t1", text)
    \/ StripCall("t1")
    \/ StripAgain("t1")
    \/ Complete("t1")

SpecRewriter == Init /\ [][NextRewriter]_vars

\* One caller of the two listings, over names plain, padded, quoted and empty.
NextIntrospect ==
    \/ \E p \in Paths : Connect("t1", p)
    \/ ConnectCheck("t1")
    \/ ConnectAcquire("t1")
    \/ ConnectClose("t1")
    \/ ConnectOpen("t1")
    \/ ConnectSetPath("t1")
    \/ \E method \in {"get_all_columns", "get_indexes"},
          table_name \in {"t", "T", "nosuch", "_", "", "  ", " t ", "t\n",
                          "t\"); DROP TABLE t; --", "t;", "a-b", "x y"} :
           Introspect("t1", method, table_name)
    \/ IntrospectCheck("t1")
    \/ IntrospectAcquire("t1")
    \/ IntrospectRun("t1")
    \/ Complete("t1")

SpecIntrospect == Init /\ [][NextIntrospect]_vars

(***************************************************************************)
(* Properties.                                                             *)
(***************************************************************************)

\* The rows of the unbounded SELECT behind a paginated query of thread t, in the
\* database its cursor reads.
UnboundedRows(t) ==
    EngineSelect(StripLimitOffset(Trimmed(frame[t].query)),
                 db[handleFile[frame[t].cursor]]).rows

\* Thread t returns from the windowed fetch of execute_query_paginated with success.
FetchReturns(t) ==
    /\ pc[t] = "pg_fetch"
    /\ pc'[t] = "done"
    /\ result'[t].success

\* C1: the count query and the windowed fetch of one execute_query_paginated call
\* run in one critical section: whenever a paginated SELECT returns a page, its
\* total_count is the number of rows the base query has in the database at the
\* moment of the fetch, and the lock was held by the caller throughout.
C1_CountAndFetchAtomic ==
    [][\A t \in Threads :
          FetchReturns(t) =>
              /\ lock = t
              /\ result'[t].pagination.total_count = Len(UnboundedRows(t))]_vars

\* C1 witness: a writer waits for the lock while the other thread is between its
\* count query and its fetch.
C1_Witness ==
    /\ pc["t1"] = "pg_fetch"
    /\ pc["t2"] = "ex_lock"
    /\ frame["t2"].query \in WriteQueries

\* C2 (as claimed): with allow_dml false no step of a query request changes the
\* database.
C2_NoWriteWhenDisallowed ==
    [][config.allow_dml = FALSE => db' = db]_vars

\* Rows lo+1 .. hi of a sequence (empty when hi <= lo).
RowsBetween(all, lo, hi) == [i \in 1..(IF hi > lo THEN hi - lo ELSE 0) |-> all[lo + i]]

\* C3: the page k a paginated SELECT returns is exactly rows
\* [(k-1)*per_page, min(k*per_page, total_count)) of the unbounded result.
C3_PageIsWindow ==
    [][\A t \in Threads :
          FetchReturns(t) =>
              LET pg    == result'[t].pagination
                  all   == UnboundedRows(t)
                  upper == IF pg.page * pg.per_page < pg.total_count
                           THEN pg.page * pg.per_page ELSE pg.total_count
              IN  /\ pg.total_count = Len(all)
                  /\ result'[t].results
                         = RowsBetween(all, (pg.page - 1) * pg.per_page, upper)]_vars

\* C3 witness: the second page of a three-row table at two rows per page has been
\* returned: the last row alone.
C3_Witness ==
    /\ pc["t1"] = "done"
    /\ result["t1"].op = "execute_query_paginated"
    /\ result["t1"].success
    /\ result["t1"].pagination.page = 2
    /\ result["t1"].pagination.per_page = 2
    /\ result["t1"].results = <<3>>

\* A successful paginated envelope is held by thread t.
PaginatedSuccess(t) ==
    /\ pc[t] = "done"
    /\ result[t].op = "execute_query_paginated"
    /\ result[t].success

\* C4: total_pages is the ceiling of total_count / per_page, and 0 for no rows.
C4_TotalPagesIsCeiling ==
    \A t \in Threads :
        PaginatedSuccess(t) =>
            LET pg == result[t].pagination
            IN  /\ pg.present
                /\ pg.total_count = 0 => pg.total_pages = 0
                /\ pg.total_count > 0 =>
                       /\ pg.total_pages * pg.per_page >= pg.total_count
                       /\ (pg.total_pages - 1) * pg.per_page < pg.total_count

\* C4 witness: three rows at two per page give two pages.
C4_Witness ==
    /\ PaginatedSuccess("t1")
    /\ result["t1"].pagination.total_count = 3
    /\ result["t1"].pagination.per_page = 2
    /\ result["t1"].pagination.total_pages = 2

\* C5: whatever page and per_page were passed, the pagination block of a successful
\* envelope has page >= 1 and 1 <= per_page <= max_results, and the offset of the
\* fetch is (page-1)*per_page >= 0 of those clamped values.
C5_Clamped ==
    \A t \in Threads :
        PaginatedSuccess(t) =>
            LET pg == result[t].pagination
            IN  /\ pg.page >= 1
                /\ pg.per_page >= 1
                /\ pg.per_page <= frame[t].max_results
                /\ frame[t].offset = (pg.page - 1) * pg.per_page
                /\ frame[t].offset >= 0

\* C5 witness: a call with page < 1 and per_page > max_results has succeeded.
C5_Witness ==
    /\ PaginatedSuccess("t1")
    /\ frame["t1"].page_arg < 1
    /\ frame["t1"].per_page_arg > frame["t1"].max_results

\* C6 (as claimed): a successful SELECT of a query request returns at most
\* config.max_query_results rows.
C6_ResultsCapped ==
    \A t \in Threads :
        (/\ pc[t] = "done"
         /\ frame[t].handler = "get_query_result"
         /\ result[t].success
         /\ IsSelect(frame[t].query))
            => Len(result[t].results) <= config.max_query_results

\* Thread t takes the step of connect that checks a path that does not exist.
MissingPathChecked(t) ==
    /\ pc[t] = "c_check"
    /\ pc'[t] # "c_check"
    /\ frame[t].db_path = MissingPath

\* C7: connect with a path that does not exist returns False and changes nothing
\* of the connection state: handle, handle states and current_db_path are as before.
C7_MissingPathLeavesState ==
    [][\A t \in Threads :
          MissingPathChecked(t) =>
              /\ pc'[t] \in {"done", "h_ret"}
              /\ result'[t] = [op |-> "connect", success |-> FALSE]
              /\ UNCHANGED <<connection, current_db_path, handleState, handleFile,
                             lock, db>>]_vars

\* C7 witness: connect to a missing path has returned False while a connection is
\* open.
C7_Witness ==
    /\ pc["t1"] = "done"
    /\ result["t1"] = [op |-> "connect", success |-> FALSE]
    /\ frame["t1"].db_path = MissingPath
    /\ connection # NoHandle
    /\ handleState[connection] = "open"
    /\ current_db_path \in DatabaseFiles

\* C8 (as claimed): a connect whose open fails leaves the holder disconnected:
\* no handle and no path.
C8_FailedOpenDisconnects ==
    [][\A t \in Threads :
          (pc[t] = "c_open" /\ pc'[t] = "done" /\ ~result'[t].success) =>
              (connection' = NoHandle /\ current_db_path' = NoPath)]_vars

\* C9 (as claimed): in every state the handle is present iff current_db_path is.
C9_HandleIffPath ==
    (connection # NoHandle) <=> (current_db_path # NoPath)

\* C10: at most one handle is open, and an open handle is the one the manager
\* holds (none is dropped unclosed).
C10_AtMostOneOpenHandle ==
    /\ Cardinality({h \in Handles : handleState[h] = "open"}) <= 1
    /\ \A h \in Handles : handleState[h] = "open" => connection = h

\* C10 witness: a second connect has replaced a handle: the new one is open, the
\* one before it closed and gone.
C10_Witness ==
    /\ connection = 2
    /\ handleState[2] = "open"
    /\ handleState[1] = "free"
    /\ \E t \in Threads : pc[t] = "done" /\ result[t] = [op |-> "connect", success |-> TRUE]

\* The shape of what a DatabaseManager method hands back: a bool for connect, None
\* for disconnect, a list for get_tables, an envelope for the two query methods.
Structured(r) ==
    CASE r.op = "connect" -> DOMAIN r = {"op", "success"} /\ r.success \in BOOLEAN
      [] r.op = "disconnect" -> DOMAIN r = {"op"}
      [] r.op = "get_tables" -> DOMAIN r = {"op", "tables"}
      [] r.op \in {"execute_query", "execute_query_paginated"} ->
             /\ DOMAIN r = DOMAIN Failure("", "")
             /\ r.success \in BOOLEAN
      [] OTHER -> r.op \in {"none", "get_status"}

\* C11: under any interleaving of connect, disconnect, execute_query,
\* execute_query_paginated and get_tables, whatever a call hands back is its
\* structured result; no exception leaves the DatabaseManager, also when the handle
\* is removed or closed between the connected-check and the statement.
C11_NoExceptionEscapes ==
    \A t \in Threads : Structured(result[t])

\* C11 witness: a query passed its connected-check, the handle was removed before
\* the statement ran, and the call came back with a failure envelope.
C11_Witness ==
    /\ pc["t1"] = "done"
    /\ result["t1"].op \in {"execute_query", "execute_query_paginated"}
    /\ ~result["t1"].success
    /\ result["t1"].error = "'NoneType' object has no attribute 'cursor'"

\* The POST query route has answered thread t's request.
Answered(t) == pc[t] = "done" /\ result[t].op = "execute_query_route"

\* C12: whatever a query request is answered with when success is false carries an
\* error message and empty results and columns, for every failure cause: not
\* connected, missing query, policy denial, a failing count query, a failing
\* windowed fetch, a failing direct statement. The same holds of the failure
\* envelopes of the two query methods themselves.
C12_FailureHasErrorAndNoRows ==
    \A t \in Threads :
        /\ (Answered(t) /\ ~result[t].success) =>
               /\ result[t].error # ""
               /\ result[t].results = <<>>
               /\ result[t].columns = <<>>
        /\ (result[t].op \in {"execute_query", "execute_query_paginated"}
                /\ ~result[t].success) =>
               /\ result[t].error # ""
               /\ result[t].results = <<>>
               /\ result[t].columns = <<>>

\* C12 witness: a paginated request whose count query ran and whose windowed fetch
\* failed has been answered.
C12_Witness ==
    /\ Answered("t1")
    /\ ~result["t1"].success
    /\ frame["t1"].op = "execute_query_paginated"
    /\ frame["t1"].query = "SELECT * FROM t LIMIT 1, 2"
    /\ frame["t1"].total_count > 0

\* C13 (as claimed): a successful SELECT envelope, direct or paginated, has rowcount
\* equal to the number of rows in results.
C13_RowcountIsRowsReturned ==
    \A t \in Threads :
        (/\ result[t].op \in {"execute_query", "execute_query_paginated"}
         /\ result[t].success
         /\ IsSelect(frame[t].query))
            => result[t].rowcount = Len(result[t].results)

\* C14 (as claimed): a write request refused by the policy is answered with status
\* 403, a request without a query with status 400.
C14_DenialIs403 ==
    \A t \in Threads :
        Answered(t) =>
            /\ result[t].error = DenialMessage => result[t].status = 403
            /\ result[t].error = "Query required" => result[t].status = 400

\* Both credentials are configured non-empty.
GateConfigured == OrEmpty(config.auth_user) # "" /\ OrEmpty(config.auth_password) # ""

\* The credentials of thread t's request equal the configured pair.
PresentsConfiguredPair(t) ==
    /\ frame[t].auth # <<>>
    /\ <<frame[t].auth[1].username>> = config.auth_user
    /\ <<frame[t].auth[1].password>> = config.auth_password

\* C15: with auth_user and auth_password both configured non-empty, the index view
\* runs and the page is returned only for a request whose username and password
\* both equal the configured pair; any other request gets the 401 challenge.
C15_GateRequiresMatchingPair ==
    \A t \in Threads :
        (GateConfigured /\ frame[t].handler = "index") =>
            /\ (pc[t] \in {"ix_view", "gt_check", "gt_lock", "gt_run", "h_ret"}
                    => PresentsConfiguredPair(t))
            /\ (pc[t] = "done" =>
                    IF PresentsConfiguredPair(t)
                    THEN result[t].status = 200
                    ELSE result[t].status = 401 /\ result[t].body = "Login required")

\* C15 witness: with the gate configured, a request with the right username and a
\* wrong password has been challenged.
C15_Witness ==
    /\ GateConfigured
    /\ pc["t1"] = "done"
    /\ frame["t1"].handler = "index"
    /\ frame["t1"].auth # <<>>
    /\ <<frame["t1"].auth[1].username>> = config.auth_user
    /\ <<frame["t1"].auth[1].password>> # config.auth_password
    /\ result["t1"].status = 401

\* C16 (as claimed): when auth_user or auth_password is unset or empty, a request
\* to the index view without credentials is served the page, never challenged.
C16_PartialCredentialsBypass ==
    \A t \in Threads :
        (/\ pc[t] = "done"
         /\ frame[t].handler = "index"
         /\ ~GateConfigured
         /\ frame[t].auth = <<>>)
            => result[t].status = 200

\* C17 (as claimed): a table info request ends with status 400 when not connected
\* and with the info envelope or a 404 when connected, never in an unhandled fault.
C17_TableInfoNeverFaults ==
    \A t \in Threads :
        (pc[t] = "done" /\ result[t].op = "get_table_info") =>
            /\ result[t].status \in {200, 400, 404}
            /\ (connection = NoHandle <=> result[t].status = 400)

\* C18 (as claimed): bind leaves every configuration value whose argument was not
\* passed as it was assigned before the call.
C18_BindKeepsAssignedValues ==
    [][(~config.app /\ config'.app) =>
          LET args == frame'["t1"].bind_args
          IN  /\ args.max_query_results = <<>> =>
                     config'.max_query_results = config.max_query_results
              /\ args.enable_cors = <<>> => config'.enable_cors = config.enable_cors
              /\ args.url_prefix = <<>> => config'.url_prefix = config.url_prefix
              /\ config'.db_path = config.db_path
              /\ config'.auth_user = config.auth_user
              /\ config'.auth_password = config.auth_password
              /\ config'.allow_dml = config.allow_dml]_vars

\* The word k stands in the upper-cased text u with a word boundary on both sides.
WholeWord(u, k) ==
    \E i \in 1..Len(u) :
        OccursAt(u, k, i) /\ WordBoundary(u, i) /\ WordBoundary(u, i + Len(k))

\* The text contains, in any case and anywhere, one of INSERT INTO, UPDATE,
\* DELETE FROM, CREATE, TRUNCATE, REPLACE INTO, DROP, ALTER as whole words.
HasWriteKeyword(text) ==
    LET u == Upper(text)
    IN  \/ MatchKeywordPair(u, "INSERT", "INTO")
        \/ MatchKeywordPair(u, "DELETE", "FROM")
        \/ MatchKeywordPair(u, "REPLACE", "INTO")
        \/ \E k \in {"UPDATE", "CREATE", "TRUNCATE", "DROP", "ALTER"} : WholeWord(u, k)

\* C19 (as claimed): contains_dml is true of every text that holds one of the write
\* keywords at a keyword boundary, wherever it stands, and with allow_dml false the
\* write gate denies every such text, one starting with SELECT included.
C19_WriteKeywordsFlagged ==
    \A t \in Threads :
        /\ (pc[t] = "cd_gate" /\ HasWriteKeyword(frame[t].query)) => result[t].value
        /\ (/\ pc[t] = "done"
            /\ result[t].op = "write_gate"
            /\ HasWriteKeyword(frame[t].query)
            /\ ~config.allow_dml) => result[t].denied

\* The text in t's frame is base, then a run of n clauses, then a terminator.
IsBaseWithClauses(t, base, run) ==
    \E term \in RewriterTerminators : frame[t].query = base \o run \o term

\* C20: for a text made of a base, zero, one or two trailing LIMIT <digits> /
\* OFFSET <digits> clauses in either order and an optional terminator,
\* _strip_limit_offset returns the trimmed base, which ends in no such clause and
\* keeps a LIMIT or OFFSET standing inside it, and a second application returns the
\* same text; of three trailing clauses only the last two are removed.
C20_StripsAtMostTwoTrailingClauses ==
    \A t \in Threads :
        (pc[t] \in {"sl_again", "done"} /\ result[t].op = "_strip_limit_offset") =>
            \A base \in RewriterBases :
                /\ \A run \in ClauseRuns(0) \cup ClauseRuns(1) \cup ClauseRuns(2) :
                       IsBaseWithClauses(t, base, run) =>
                           /\ result[t].value = Strip(base)
                           /\ ClauseMatchStart(result[t].value, 1) = 0
                           /\ pc[t] = "done" => result[t].again = <<result[t].value>>
                /\ \A first \in RewriterClauses, run \in ClauseRuns(2) :
                       IsBaseWithClauses(t, base, first \o run) =>
                           result[t].value = Strip(base \o first)

\* Witness for C20: the text with LIMIT then OFFSET came back as its base, and so
\* did one with OFFSET then LIMIT, a terminator and an inner LIMIT.
C20_Witness ==
    /\ pc["t1"] = "done"
    /\ result["t1"].op = "_strip_limit_offset"
    /\ \/ /\ frame["t1"].query = "SELECT * FROM t LIMIT 10 OFFSET 20"
          /\ result["t1"].value = "SELECT * FROM t"
       \/ /\ frame["t1"].query = "SELECT * FROM (SELECT * FROM t LIMIT 2) OFFSET 20\nlimit  5 ; "
          /\ result["t1"].value = "SELECT * FROM (SELECT * FROM t LIMIT 2)"

\* The upper-cased text holds LIMIT as a word of its own.
HasLimitToken(text) == WholeWord(Upper(text), "LIMIT")

\* C21 (as claimed): a SELECT that get_query_result sends on the non-paginated path
\* and whose text holds no LIMIT token (letters "limit" inside a name do not count)
\* reaches the database as the text without its trailing terminator followed by
\* " LIMIT <max_query_results>".
C21_DefaultLimitAppended ==
    [][\A q \in RequestQueries, page \in Optional(0..MaxPage),
          per_page \in Optional(0..MaxPerPage) :
          (/\ pc["t1"] = "idle"
           /\ pc'["t1"] = "ex_check"
           /\ IsSelect(q)
           /\ ~HasLimitToken(q)
           /\ GetQueryResult("t1", q, page, per_page))
              => frame'["t1"].query =
                     RStripSemicolon(q) \o " LIMIT " \o ToStr(config.max_query_results)]_vars

\* C22 (as claimed): a request whose text contains_dml classifies as a write, made
\* with allow_dml false, is answered with the fixed denial message whether or not a
\* database is connected: the write gate comes before any look at the connection.
C22_DenialBeforeConnection ==
    \A t \in Threads :
        (/\ pc[t] \in {"done", "h_ret"}
         /\ result[t].op = "get_query_result"
         /\ frame[t].handler \in {"get_query_result", "execute_query_route"}
         /\ contains_dml(frame[t].query)
         /\ ~config.allow_dml)
            => result[t].error = DenialMessage

\* The name is not empty and holds letters, digits and underscores only.
IsPlainName(name) == name # "" /\ FirstOutside(name, 1, WordChars) = Len(name) + 1

\* The statements that carry a name written into their text.
IsRawPragma(statement) == StartsWith(statement, "PRAGMA ")

\* C23 (as claimed): get_all_columns and get_indexes send a PRAGMA with the name
\* written into it only after the statement with the bound name failed and only
\* for a name _safe_table_identifier accepts; for a name that is empty or holds any
\* character other than letters, digits and underscore they return the empty list
\* and send no such PRAGMA.
C23_OnlySafeNamesInterpolated ==
    \A t \in Threads :
        (pc[t] = "done" /\ result[t].op \in {"get_all_columns", "get_indexes"}) =>
            LET sent == result[t].statements
                raw  == \E k \in 1..Len(sent) : IsRawPragma(sent[k])
            IN  /\ raw => (Len(sent) = 2 /\ ~IsRawPragma(sent[1]) /\ IsRawPragma(sent[2]))
                /\ ~IsPlainName(frame[t].table_name) => (~raw /\ result[t].value = <<>>)

\* C25 (as claimed): in execute_query, execute_query_paginated and get_tables the
\* handle the connected-check saw is still there when the body under the lock
\* uses it, whatever a concurrent disconnect does; a call that finds no handle
\* answers "No database connection" (get_tables: the empty list without a fault),
\* never with the attribute error of a missing handle.
C25_HandlePresentWhenDereferenced ==
    \A t \in Threads :
        /\ (pc[t] \in {"ex_run", "pg_count", "gt_run"} /\ lock = t) => connection # NoHandle
        /\ (/\ pc[t] \in {"done", "h_ret"}
            /\ result[t].op \in {"execute_query", "execute_query_paginated"}
            /\ ~result[t].success)
               => result[t].error # CursorError(NoHandle)

\* Thread t waits at a with self._lock.
AwaitsLock(t) == pc[t] \in {"c_lock", "d_lock", "ex_lock", "pg_lock", "gt_lock"}

\* C24: no thread asks for the lock while it holds it, a thread between calls or
\* with its call returned holds no lock, and under fair scheduling every call
\* that was started returns.
C24_CallsReturn ==
    /\ [](\A t \in Threads :
             /\ AwaitsLock(t) => lock # t
             /\ pc[t] \in {"idle", "done"} => lock # t)
    /\ \A t \in Threads : (pc[t] # "idle") ~> (pc[t] = "done")

\* C24 witness: a non-SELECT handed on by execute_query_paginated waits for the
\* lock a disconnect holds.
C24_Witness ==
    /\ pc["t1"] = "ex_lock"
    /\ frame["t1"].page_arg > 0
    /\ lock = "t2"
    /\ frame["t2"].op = "disconnect"
====
